---- MODULE Spec2Model ----
(***************************************************************************)
(* A model of c4driver.py: one run of main() customises a Control4         *)
(* experience-button driver archive.  The state is the current directory   *)
(* (source images, template archive, output archives, the two temporary    *)
(* directories, the log files) and the position of the running script;     *)
(* runs follow one another, each starting from the files the last left.    *)
(* Text is a sequence of tokens: the fixed substrings the script searches  *)
(* for are single tokens, the characters of an identifier are one token    *)
(* each ("e_acute" stands for a non-ASCII letter).  An image file's        *)
(* content is the source image and size it was resized from.               *)
(***************************************************************************)
EXTENDS Integers, Sequences, FiniteSets, TLC

\* ---------------------------------------------------------------- bounds
\* Runs of the script in one behaviour, and environment failures among them
\* (an image that does not open, a size that does not save, an archive that
\* does not extract or pack).
MaxRuns == 2
MaxFaults == 1

\* ------------------------------------------------------------- constants
sizelist == <<16, 32, 70, 90, 300, 512, 1024>>
Sizes == {sizelist[i] : i \in 1..Len(sizelist)}

\* The identifiers a run may be given (sys.argv[1]); NoArg is len(sys.argv) < 2.
NoArg == <<>>
Names == {<<"a", "_", "b">>, <<"c", "e_acute">>, <<"b">>}
\* The directory holds a_b.png, a_b_selected.png and c<e acute>.png; b.png is missing.
NoImageName == <<"b">>
SelectedName == <<"a", "_", "b">>

\* ------------------------------------------------------------------ text
NonAscii == {"e_acute", "E_acute"}
LowerCase == {"a", "b", "c", "e_acute"}
UpperCase == {"A", "B", "C", "E_acute"}

Upper(c) ==
    CASE c = "a" -> "A" [] c = "b" -> "B" [] c = "c" -> "C"
      [] c = "e_acute" -> "E_acute" [] OTHER -> c

Lower(c) ==
    CASE c = "A" -> "a" [] c = "B" -> "b" [] c = "C" -> "c"
      [] c = "E_acute" -> "e_acute" [] OTHER -> c

IsCased(c) == c \in LowerCase \cup UpperCase

\* str.title(): a cased character is upper-cased when the previous character
\* is not cased and lower-cased when it is; other characters are kept.
RECURSIVE TitleFrom(_, _)
TitleFrom(s, prevCased) ==
    IF s = <<>> THEN <<>>
    ELSE LET c == Head(s)
         IN  IF IsCased(c)
             THEN <<(IF prevCased THEN Lower(c) ELSE Upper(c))>> \o TitleFrom(Tail(s), TRUE)
             ELSE <<c>> \o TitleFrom(Tail(s), FALSE)

Title(s) == TitleFrom(s, FALSE)

\* str.replace(old, new): every non-overlapping occurrence, left to right.
RECURSIVE Replace(_, _, _)
Replace(s, old, new) ==
    IF Len(s) < Len(old) \/ old = <<>> THEN s
    ELSE IF SubSeq(s, 1, Len(old)) = old
         THEN new \o Replace(SubSeq(s, Len(old) + 1, Len(s)), old, new)
         ELSE <<Head(s)>> \o Replace(Tail(s), old, new)

\* data.encode().decode("ascii", "ignore"): non-ASCII characters are dropped.
AsciiOnly(s) == SelectSeq(s, LAMBDA c : c \notin NonAscii)

SetMin(S) == CHOOSE x \in S : \A y \in S : x <= y
SetMax(S) == CHOOSE x \in S : \A y \in S : x >= y

\* re.sub(open + ".*" + close, repl, data, flags = re.DOTALL): the greedy match
\* runs from the first opening tag to the last closing tag after it.
ReSubDotAll(data, open, close, repl) ==
    LET opens == {i \in 1..Len(data) : data[i] = open}
    IN  IF opens = {} THEN data
        ELSE LET i == SetMin(opens)
                 closes == {j \in (i + 1)..Len(data) : data[j] = close}
             IN  IF closes = {} THEN data
                 ELSE SubSeq(data, 1, i - 1) \o repl
                        \o SubSeq(data, SetMax(closes) + 1, Len(data))

\* re.search("<version>(.*)</version>", data): without DOTALL "." does not
\* match a newline, so the match stays on one line; <<0, 0>> is None.
ReSearchVersion(data) ==
    LET closesOf(i) == {j \in (i + 1)..Len(data) :
                            /\ data[j] = "</version>"
                            /\ \A k \in (i + 1)..(j - 1) : data[k] # "\n"}
        opens == {i \in 1..Len(data) : data[i] = "<version>" /\ closesOf(i) # {}}
    IN  IF opens = {} THEN <<0, 0>>
        ELSE <<SetMin(opens), SetMax(closesOf(SetMin(opens)))>>

Digits == {"0", "1", "2", "3", "4", "5", "6", "7", "8", "9"}
DigitSeq == <<"0", "1", "2", "3", "4", "5", "6", "7", "8", "9">>
DigitVal(d) == (CHOOSE i \in 1..10 : DigitSeq[i] = d) - 1

\* int(text) raises ValueError unless the text is a decimal numeral.
IsNumeric(v) == v # <<>> /\ \A i \in 1..Len(v) : v[i] \in Digits

RECURSIVE ParseInt(_)
ParseInt(v) ==
    IF v = <<>> THEN 0
    ELSE 10 * ParseInt(SubSeq(v, 1, Len(v) - 1)) + DigitVal(v[Len(v)])

RECURSIVE FormatInt(_)
FormatInt(n) ==
    IF n < 10 THEN <<DigitSeq[n + 1]>>
    ELSE FormatInt(n \div 10) \o <<DigitSeq[(n % 10) + 1]>>

\* ------------------------------------------------- process_xml_file
\* RenameDriver with the label's title() call left out.
RenameDriver_NoTitle(data, driver_name, driver_label, update_driver) ==
    LET ascii == AsciiOnly(data)
        label == Replace(driver_label, <<"_">>, <<" ">>)
    IN  IF update_driver THEN ascii
        ELSE Replace(Replace(Replace(ascii, <<"experience-button-scenario">>, driver_name),
                             <<"Scenario", " - Experience Button">>,
                             label \o <<" - Experience Button">>),
                     <<"name=\"", "Scenario", "\"">>,
                     <<"name=\"">> \o label \o <<"\"">>)

\* Lines 109-118: drop non-ASCII, then (create mode only) rename.
RenameDriver(data, driver_name, driver_label, update_driver) ==
    LET ascii == AsciiOnly(data)
        stext == <<"experience-button-scenario">>
        stext2 == <<"Scenario", " - Experience Button">>
        stext3 == <<"name=\"", "Scenario", "\"">>
        label == Replace(Title(driver_label), <<"_">>, <<" ">>)
        rtext == driver_name
        rtext2 == label \o <<" - Experience Button">>
    IN  IF update_driver THEN ascii
        ELSE Replace(Replace(Replace(ascii, stext, rtext), stext2, rtext2),
                     stext3, <<"name=\"">> \o label \o <<"\"">>)

\* Lines 119-120: the created and modified dates become the current time.
StampDates(data, current_time) ==
    ReSubDotAll(
        ReSubDotAll(data, "<created>", "</created>",
                    <<"<created>", current_time, "</created>">>),
        "<modified>", "</modified>",
        <<"<modified>", current_time, "</modified>">>)

VersionText(data) ==
    LET m == ReSearchVersion(data) IN SubSeq(data, m[1] + 1, m[2] - 1)

\* Line 121 raises AttributeError (no match), line 123 ValueError (int()).
VersionFails(data) ==
    ReSearchVersion(data) = <<0, 0>> \/ ~IsNumeric(VersionText(data))

\* BumpVersion with the int() call left out: "+ 1" on text appends a "1".
BumpVersion_AppendsOne(data) ==
    LET m == ReSearchVersion(data)
    IN  Replace(data, SubSeq(data, m[1], m[2]),
                <<"<version>">> \o VersionText(data) \o <<"1", "</version>">>)

\* Lines 121-124: every occurrence of the matched text gets the new version.
BumpVersion(data) ==
    LET m == ReSearchVersion(data)
        version_info == SubSeq(data, m[1], m[2])
        new_version_info ==
            <<"<version>">> \o FormatInt(ParseInt(VersionText(data)) + 1)
                \o <<"</version>">>
    IN  Replace(data, version_info, new_version_info)

process_xml_fails(data, driver_name, driver_label, update_driver, current_time) ==
    VersionFails(StampDates(
        RenameDriver(data, driver_name, driver_label, update_driver), current_time))

process_xml_file(data, driver_name, driver_label, update_driver, current_time) ==
    BumpVersion(StampDates(
        RenameDriver(data, driver_name, driver_label, update_driver), current_time))

\* What a reader of the descriptor sees.
RECURSIVE Elements(_, _, _)
Elements(data, open, close) ==
    LET opens == {i \in 1..Len(data) : data[i] = open}
    IN  IF opens = {} THEN {}
        ELSE LET i == SetMin(opens)
                 closes == {j \in (i + 1)..Len(data) : data[j] = close}
             IN  IF closes = {} THEN {}
                 ELSE LET j == SetMin(closes)
                      IN  {SubSeq(data, i + 1, j - 1)}
                            \cup Elements(SubSeq(data, j + 1, Len(data)), open, close)

DisplayName(data) == Elements(data, "name=\"", "\"")
DocumentName(data) == Elements(data, "<name>", "</name>")
IconRefs(data) == Elements(data, "<Icon>", "</Icon>")
Versions(data) == Elements(data, "<version>", "</version>")

\* ------------------------------------------------------------ file system
\* The content of an image file: the source image it was resized from.
Absent == [name |-> <<>>, variant |-> "absent", sz |-> 0]
Resized(image, sz) == [name |-> image.name, variant |-> image.variant, sz |-> sz]
TemplateIcon(prefix, sz) == [name |-> <<prefix>>, variant |-> "template", sz |-> sz]

\* temp_image/<prefix>_<size>.png
ImageFiles == {"default", "selected"} \X Sizes
NoImages == [f \in ImageFiles |-> Absent]
\* www/icons/device_sm.png, www/icons/device_lg.png, www/icons/device/<file>
device_sm == <<"device_sm", 16>>
device_lg == <<"device_lg", 32>>
TreePaths == {device_sm, device_lg} \cup ImageFiles
DeviceSizes == Sizes \ {16, 32}

\* A directory tree or archive: driver.xml, the icons, the www/icons-old folder.
NoTree == [exists |-> FALSE, xml |-> <<>>,
           files |-> [p \in TreePaths |-> Absent], old |-> FALSE]
NoImageDir == [exists |-> FALSE, files |-> NoImages]

\* The stock driver served at EXPERIENCE_BUTTON_SCENARIO_DRIVER_URL.
TemplateXml(version) ==
    <<"<name>", "Scenario", " - Experience Button", "</name>", "\n",
      "<created>", "t0", "</created>", "\n",
      "<modified>", "t0", "</modified>", "\n",
      "<version>">> \o version \o <<"</version>", "\n",
      "<proxy ", "name=\"", "Scenario", "\"", ">", "\n",
      "<Icon>", "experience-button-scenario", "/default_70", "</Icon>", "\n",
      "<Icon>", "experience-button-scenario", "/selected_70", "</Icon>", "\n">>

TemplateVersion == <<"9">>

TemplateArchive ==
    [exists |-> TRUE,
     xml |-> TemplateXml(TemplateVersion),
     files |-> [p \in TreePaths |->
                  IF p \in {device_sm, device_lg} THEN TemplateIcon(p[1], p[2])
                  ELSE IF p[2] \in DeviceSizes THEN TemplateIcon(p[1], p[2])
                  ELSE Absent],
     old |-> TRUE]

DriverName(label) == <<"uibutton_">> \o label

\* An output archive installed before the first run: its version element may
\* be numeric with a leading zero, non-numeric or missing.
LegacyVersionElements ==
    {<<"<version>", "0", "4", "</version>">>, <<"<version>", "x", "</version>">>, <<>>}
LegacyArchive(label, versionElement) ==
    [exists |-> TRUE,
     xml |-> Replace(
                RenameDriver(TemplateXml(<<"0">>), DriverName(label), label, FALSE),
                <<"<version>", "0", "</version>">>, versionElement),
     files |-> TemplateArchive.files,
     old |-> FALSE]
LegacyName == <<"a", "_", "b">>

\* datetime.now(): a later run reads a later time.
Times == <<"t1", "t2", "t3", "t4">>

VARIABLES
    images,            \* <name>.png: 0 when missing, 1 when present
    selected_images,   \* <name>_selected.png, likewise
    template,          \* experience-button-scenario.c4z exists
    outputs,           \* uibutton_<name>.c4z
    zips,              \* names with a uibutton_<name>.zip on disk
    tempdir,           \* outdir
    temp_image,        \* image_path
    logs,              \* names with a uibutton_<name>.log
    runLog,            \* what the current run has logged
    pc,                \* position of the script
    driver_label,      \* sys.argv[1]
    update_driver,
    orig_driver_name,  \* "template" or "final"
    base_selected_file,\* "png" or "selected"
    exit_status,       \* -1 while running or before any run
    failed_at,         \* the step an abnormal exit happened at
    downloaded,        \* this run called wget.download
    source,            \* the archive this run extracted
    generated,         \* the images this run saved
    prior,             \* uibutton_<name>.c4z as the run found it
    start,             \* which of template, outdir, image_path the run found
    history,           \* successful updates since a create run made the archive, else -1
    faults,
    runs

vars == <<images, selected_images, template, outputs, zips, tempdir, temp_image,
          logs, runLog, pc, driver_label, update_driver, orig_driver_name,
          base_selected_file, exit_status, failed_at, downloaded, source,
          generated, prior, start, history, faults, runs>>

inputFiles == <<images, selected_images>>
atStart == <<prior, start>>
NoStart == [template |-> FALSE, tempdir |-> FALSE, temp_image |-> FALSE]
locals == <<driver_label, update_driver, orig_driver_name, base_selected_file>>

Init ==
    /\ images = [n \in Names |-> IF n = NoImageName THEN 0 ELSE 1]
    /\ selected_images = [n \in Names |-> IF n = SelectedName THEN 1 ELSE 0]
    /\ template = FALSE
    /\ \/ outputs = [n \in Names |-> NoTree]
       \/ \E ve \in LegacyVersionElements :
            outputs = [n \in Names |->
                         IF n = LegacyName THEN LegacyArchive(n, ve) ELSE NoTree]
    /\ zips = {}
    /\ tempdir = NoTree
    /\ temp_image = NoImageDir
    /\ logs = {}
    /\ runLog = <<>>
    /\ pc = "idle"
    /\ driver_label = NoArg
    /\ update_driver = FALSE
    /\ orig_driver_name = "template"
    /\ base_selected_file = "png"
    /\ exit_status = -1
    /\ failed_at = "none"
    /\ downloaded = FALSE
    /\ source = NoTree
    /\ generated = NoImages
    /\ prior = NoTree
    /\ start = NoStart
    /\ history = [n \in Names |-> -1]
    /\ faults = 0
    /\ runs = 0

Info(msg) == <<"INFO", msg>>
Error(msg) == <<"ERROR", msg>>

\* sys.exit(message) and an unhandled exception both end the process with
\* status 1.
Abort(step) ==
    /\ pc' = "exited"
    /\ exit_status' = 1
    /\ failed_at' = step
    /\ UNCHANGED <<source, generated>>

Continue(next) ==
    /\ pc' = next
    /\ UNCHANGED <<exit_status, failed_at>>

\* ------------------------------------------------------------------- main
\* Lines 131-149: the argument check, the constants, configure_logging.
MainArgs(arg) ==
    /\ pc = "idle"
    /\ runs < MaxRuns
    /\ runs' = runs + 1
    /\ driver_label' = arg
    /\ update_driver' = FALSE
    /\ orig_driver_name' = "template"
    /\ base_selected_file' = "png"
    /\ downloaded' = FALSE
    /\ prior' = IF arg = NoArg THEN NoTree ELSE outputs[arg]
    /\ start' = [template |-> template, tempdir |-> tempdir.exists,
                 temp_image |-> temp_image.exists]
    /\ IF arg = NoArg
       THEN /\ Abort("args")
            /\ UNCHANGED <<logs, runLog>>
       ELSE /\ Continue("check_image")
            /\ logs' = logs \cup {arg}
            /\ runLog' = <<Info("Started script execution.")>>
            /\ UNCHANGED <<source, generated>>
    /\ UNCHANGED <<inputFiles, template, outputs, zips, tempdir, temp_image,
                   history, faults>>

\* Lines 151-154.
CheckImage ==
    /\ pc = "check_image"
    /\ IF images[driver_label] = 0
       THEN /\ Abort("check_image")
            /\ runLog' = Append(runLog, Error("No image file"))
       ELSE /\ Continue("resolve")
            /\ UNCHANGED <<runLog, source, generated>>
    /\ UNCHANGED <<inputFiles, template, outputs, zips, tempdir, temp_image,
                   logs, locals, downloaded, faults, runs, atStart, history>>

\* wget.download either saves the file, returns without one, or raises.
DownloadOutcomes == {"saved", "missing", "error"}

\* Resolve with the os.path.exists check after the download left out.
Resolve_IgnoresMissing(outcome) ==
    /\ pc = "resolve"
    /\ IF outputs[driver_label].exists
       THEN /\ outcome = "saved"
            /\ orig_driver_name' = "final"
            /\ update_driver' = TRUE
            /\ runLog' = Append(runLog, Info("Updating existing driver file"))
            /\ Continue("prepare")
            /\ UNCHANGED <<template, downloaded, source, generated>>
       ELSE /\ downloaded' = TRUE
            /\ orig_driver_name' = "template"
            /\ update_driver' = FALSE
            /\ template' = (template \/ outcome = "saved")
            /\ IF outcome = "error"
               THEN /\ Abort("resolve")
                    /\ UNCHANGED runLog
               ELSE /\ runLog' = Append(runLog, Info("Creating driver file"))
                    /\ Continue("prepare")
                    /\ UNCHANGED <<source, generated>>
    /\ UNCHANGED <<inputFiles, outputs, zips, tempdir, temp_image, logs,
                   driver_label, base_selected_file, faults, runs, atStart, history>>

\* Lines 156-169.
Resolve(outcome) ==
    /\ pc = "resolve"
    /\ IF outputs[driver_label].exists
       THEN /\ outcome = "saved"
            /\ orig_driver_name' = "final"
            /\ update_driver' = TRUE
            /\ runLog' = Append(runLog, Info("Updating existing driver file"))
            /\ Continue("prepare")
            /\ UNCHANGED <<template, downloaded, source, generated>>
       ELSE /\ downloaded' = TRUE
            /\ orig_driver_name' = "template"
            /\ update_driver' = FALSE
            /\ template' = (template \/ outcome = "saved")
            /\ IF outcome = "error" \/ ~template'
               THEN /\ Abort("resolve")
                    /\ UNCHANGED runLog
               ELSE /\ runLog' = Append(runLog, Info("Creating driver file"))
                    /\ Continue("prepare")
                    /\ UNCHANGED <<source, generated>>
    /\ UNCHANGED <<inputFiles, outputs, zips, tempdir, temp_image, logs,
                   driver_label, base_selected_file, faults, runs, atStart, history>>

\* Lines 171-178: pick the selected image, Path(image_path).mkdir(exist_ok = True).
Prepare ==
    /\ pc = "prepare"
    /\ IF selected_images[driver_label] = 0
       THEN /\ base_selected_file' = "png"
            /\ runLog' = Append(runLog, Info("No selected image file"))
       ELSE /\ base_selected_file' = "selected"
            /\ UNCHANGED runLog
    /\ temp_image' = [temp_image EXCEPT !.exists = TRUE]
    /\ Continue("make_default")
    /\ UNCHANGED <<inputFiles, template, outputs, zips, tempdir, logs,
                   driver_label, update_driver, orig_driver_name, downloaded,
                   source, generated, faults, runs, atStart, history>>

\* ------------------------------------------------------- make_image_files
OrigImage(label) == [name |-> label, variant |-> "png"]
SelectedImage(label) == [name |-> label, variant |-> "selected"]

\* Lines 85-95: the log of the loop; a size in failed raised OSError.
RECURSIVE ResizeLog(_, _)
ResizeLog(i, failed) ==
    IF i > Len(sizelist) THEN <<>>
    ELSE <<Info("Creating")>>
           \o (IF sizelist[i] \in failed
               THEN <<Error("cannot create resized image")>> ELSE <<>>)
           \o ResizeLog(i + 1, failed)

\* Lines 81-95: the files of the prefix after the loop; a failed size keeps
\* whatever was at its path.
ResizedFiles(files, infile, outfileprefix, failed) ==
    [f \in ImageFiles |->
        IF f[1] = outfileprefix /\ f[2] \notin failed
        THEN Resized(infile, f[2]) ELSE files[f]]

\* At most one size of a set fails in one call.
FailureSets == {F \in SUBSET Sizes : Cardinality(F) <= 1 /\ Cardinality(F) <= MaxFaults - faults}

\* Image.open raises (openFails), or the loop runs with the sizes in failed
\* failing to resize or save.
make_image_files(step, next, infile, outfileprefix, openFails, failed) ==
    /\ pc = step
    /\ IF openFails
       THEN /\ failed = {}
            /\ faults < MaxFaults
            /\ faults' = faults + 1
            /\ Abort(step)
            /\ UNCHANGED <<temp_image, runLog>>
       ELSE /\ failed \in FailureSets
            /\ faults' = faults + Cardinality(failed)
            /\ temp_image' = [temp_image EXCEPT
                   !.files = ResizedFiles(@, infile, outfileprefix, failed)]
            /\ generated' = ResizedFiles(generated, infile, outfileprefix, failed)
            /\ runLog' = runLog \o <<Info("Using image file")>> \o ResizeLog(1, failed)
            /\ Continue(next)
            /\ UNCHANGED source
    /\ UNCHANGED <<inputFiles, template, outputs, zips, tempdir, logs, locals,
                   downloaded, runs, atStart, history>>

\* Line 180.
MakeDefault(openFails, failed) ==
    make_image_files("make_default", "make_selected", OrigImage(driver_label),
                     "default", openFails, failed)

\* Line 181.
MakeSelected(openFails, failed) ==
    make_image_files("make_selected", "extract",
                     IF base_selected_file = "selected"
                     THEN SelectedImage(driver_label) ELSE OrigImage(driver_label),
                     "selected", openFails, failed)

\* ---------------------------------------------------------------- extract
SourceArchive ==
    IF orig_driver_name = "final" THEN outputs[driver_label] ELSE TemplateArchive

\* ZipFile.extractall(path = outdir): members overwrite, other files stay.
ExtractAll(dir, archive) ==
    [exists |-> TRUE,
     xml |-> archive.xml,
     files |-> [p \in TreePaths |->
                  IF archive.files[p] # Absent THEN archive.files[p] ELSE dir.files[p]],
     old |-> (dir.old \/ archive.old)]

\* Line 183.
Extract(fails) ==
    /\ pc = "extract"
    /\ IF fails
       THEN /\ faults < MaxFaults
            /\ faults' = faults + 1
            /\ Abort("extract")
            /\ UNCHANGED tempdir
       ELSE /\ tempdir' = ExtractAll(tempdir, SourceArchive)
            /\ source' = SourceArchive
            /\ Continue("patch")
            /\ UNCHANGED <<generated, faults>>
    /\ UNCHANGED <<inputFiles, template, outputs, zips, temp_image, logs, runLog,
                   locals, downloaded, runs, atStart, history>>

\* Line 184.
ProcessXml ==
    /\ pc = "patch"
    /\ IF process_xml_fails(tempdir.xml, DriverName(driver_label), driver_label,
                            update_driver, Times[runs])
       THEN /\ Abort("patch")
            /\ UNCHANGED tempdir
       ELSE /\ tempdir' = [tempdir EXCEPT !.xml =
                    process_xml_file(@, DriverName(driver_label), driver_label,
                                     update_driver, Times[runs])]
            /\ Continue("assemble")
            /\ UNCHANGED <<source, generated>>
    /\ UNCHANGED <<inputFiles, template, outputs, zips, temp_image, logs, runLog,
                   locals, downloaded, faults, runs, atStart, history>>

\* ---------------------------------------------------------------- assemble
\* The fixed sequence of lines 188-191; each needs its file in temp_image.
AssembleOps ==
    <<[op |-> "move", file |-> <<"default", 16>>, to |-> device_sm],
      [op |-> "move", file |-> <<"default", 32>>, to |-> device_lg],
      [op |-> "remove", file |-> <<"selected", 16>>, to |-> device_sm],
      [op |-> "remove", file |-> <<"selected", 32>>, to |-> device_lg]>>

\* The state after the first k operations: <<image files, tree files>>.
RECURSIVE AfterOps(_, _, _)
AfterOps(k, ifiles, tfiles) ==
    IF k = 0 THEN <<ifiles, tfiles>>
    ELSE LET before == AfterOps(k - 1, ifiles, tfiles)
             o == AssembleOps[k]
         IN  <<[before[1] EXCEPT ![o.file] = Absent],
               IF o.op = "move"
               THEN [before[2] EXCEPT ![o.to] = before[1][o.file]]
               ELSE before[2]>>

\* The operations that run before the first one whose file is missing.
RECURSIVE OpsDone(_, _)
OpsDone(k, ifiles) ==
    IF k = Len(AssembleOps) THEN k
    ELSE IF ifiles[AssembleOps[k + 1].file] = Absent THEN k
         ELSE OpsDone(k + 1, ifiles)

\* Lines 192-195: glob what is left in temp_image and copy it into device.
CopyIcons(ifiles, tfiles) ==
    [p \in TreePaths |->
        IF p \in ImageFiles /\ ifiles[p] # Absent THEN ifiles[p] ELSE tfiles[p]]

\* Lines 185-195.
Assemble ==
    /\ pc = "assemble"
    /\ LET done == OpsDone(0, temp_image.files)
           st == AfterOps(done, temp_image.files, tempdir.files)
       IN  /\ temp_image' = [temp_image EXCEPT !.files = st[1]]
           /\ IF done < Len(AssembleOps)
              THEN /\ tempdir' = [tempdir EXCEPT !.old = FALSE, !.files = st[2]]
                   /\ Abort("assemble")
              ELSE /\ tempdir' = [tempdir EXCEPT !.old = FALSE,
                                                 !.files = CopyIcons(st[1], st[2])]
                   /\ Continue("package")
                   /\ UNCHANGED <<source, generated>>
    /\ UNCHANGED <<inputFiles, template, outputs, zips, logs, runLog, locals,
                   downloaded, faults, runs, atStart, history>>

\* ----------------------------------------------------------------- package
\* Package with the old archive removed before make_archive runs.
Package_RemovesOutputFirst(fails) ==
    /\ pc = "package"
    /\ temp_image' = NoImageDir
    /\ IF fails
       THEN /\ faults < MaxFaults
            /\ faults' = faults + 1
            /\ zips' = zips \cup {driver_label}
            /\ outputs' = [outputs EXCEPT ![driver_label] = NoTree]
            /\ Abort("package")
            /\ UNCHANGED <<tempdir, history>>
       ELSE /\ outputs' = [outputs EXCEPT ![driver_label] = tempdir]
            /\ history' = [history EXCEPT ![driver_label] =
                   IF ~update_driver THEN 0 ELSE IF @ >= 0 THEN @ + 1 ELSE @]
            /\ zips' = zips \ {driver_label}
            /\ tempdir' = NoTree
            /\ Continue("finish")
            /\ UNCHANGED <<source, generated, faults>>
    /\ UNCHANGED <<inputFiles, template, logs, runLog, locals, downloaded, runs,
                   atStart>>

\* Lines 196-199: rmtree(image_path), make_archive, rmtree(outdir), move.
\* make_archive may fail (fails) and leave a partial zip behind.
Package(fails) ==
    /\ pc = "package"
    /\ temp_image' = NoImageDir
    /\ IF fails
       THEN /\ faults < MaxFaults
            /\ faults' = faults + 1
            /\ zips' = zips \cup {driver_label}
            /\ Abort("package")
            /\ UNCHANGED <<tempdir, outputs, history>>
       ELSE /\ outputs' = [outputs EXCEPT ![driver_label] = tempdir]
            /\ history' = [history EXCEPT ![driver_label] =
                   IF ~update_driver THEN 0 ELSE IF @ >= 0 THEN @ + 1 ELSE @]
            /\ zips' = zips \ {driver_label}
            /\ tempdir' = NoTree
            /\ Continue("finish")
            /\ UNCHANGED <<source, generated, faults>>
    /\ UNCHANGED <<inputFiles, template, logs, runLog, locals, downloaded, runs,
                   atStart>>

\* Finish with the os.remove of the template left out.
Finish_KeepsTemplate ==
    /\ pc = "finish"
    /\ runLog' = runLog \o <<Info(IF update_driver THEN "driver file updated."
                                  ELSE "driver file created."),
                             Info("Finished script execution.")>>
    /\ pc' = "exited"
    /\ exit_status' = 0
    /\ failed_at' = "none"
    /\ UNCHANGED <<inputFiles, template, outputs, zips, tempdir, temp_image, logs,
                   locals, downloaded, source, generated, faults, runs, atStart,
                   history>>

\* Lines 200-205.
Finish ==
    /\ pc = "finish"
    /\ IF update_driver
       THEN /\ runLog' = runLog \o <<Info("driver file updated."),
                                     Info("Finished script execution.")>>
            /\ UNCHANGED template
       ELSE /\ template' = FALSE
            /\ runLog' = runLog \o <<Info("driver file created."),
                                     Info("Finished script execution.")>>
    /\ pc' = "exited"
    /\ exit_status' = 0
    /\ failed_at' = "none"
    /\ UNCHANGED <<inputFiles, outputs, zips, tempdir, temp_image, logs, locals,
                   downloaded, source, generated, faults, runs, atStart, history>>

\* The process has ended: only the files are left for the next run.
ProcessExit ==
    /\ pc = "exited"
    /\ pc' = "idle"
    /\ runLog' = <<>>
    /\ driver_label' = NoArg
    /\ update_driver' = FALSE
    /\ orig_driver_name' = "template"
    /\ base_selected_file' = "png"
    /\ downloaded' = FALSE
    /\ exit_status' = -1
    /\ failed_at' = "none"
    /\ source' = NoTree
    /\ generated' = NoImages
    /\ prior' = NoTree
    /\ start' = NoStart
    /\ UNCHANGED <<inputFiles, template, outputs, zips, tempdir, temp_image, logs,
                   history, faults, runs>>

Next ==
    \/ \E arg \in Names \cup {NoArg} : MainArgs(arg)
    \/ CheckImage
    \/ \E outcome \in DownloadOutcomes : Resolve(outcome)
    \/ Prepare
    \/ \E openFails \in BOOLEAN, failed \in SUBSET Sizes : MakeDefault(openFails, failed)
    \/ \E openFails \in BOOLEAN, failed \in SUBSET Sizes : MakeSelected(openFails, failed)
    \/ \E fails \in BOOLEAN : Extract(fails)
    \/ ProcessXml
    \/ Assemble
    \/ \E fails \in BOOLEAN : Package(fails)
    \/ Finish
    \/ ProcessExit

Spec == Init /\ [][Next]_vars

\* ================================================================ claims
Completed == pc = "exited" /\ exit_status = 0
Failed == pc = "exited" /\ exit_status = 1
PastCheck ==
    \/ pc \in {"resolve", "prepare", "make_default", "make_selected", "extract",
               "patch", "assemble", "package", "finish"}
    \/ pc = "exited" /\ failed_at \notin {"args", "check_image"}
PastResolve ==
    \/ pc \in {"prepare", "make_default", "make_selected", "extract", "patch",
               "assemble", "package", "finish"}
    \/ pc = "exited" /\ failed_at \notin {"args", "check_image", "resolve"}
Logged(entry) == \E i \in 1..Len(runLog) : runLog[i] = entry
ResizeFailed == Logged(Error("cannot create resized image"))
GeneratedImages == {generated[f] : f \in ImageFiles} \ {Absent}

\* C1: a run that completes writes the extracted archive's version plus 1 as
\* integer text; an archive made by a create run and n updates holds the
\* template's version + n + 1; a run that fails leaves the stored version alone.
C1_VersionIncrement ==
    /\ Completed =>
         \E v \in Versions(source.xml) :
            /\ IsNumeric(v)
            /\ Versions(outputs[driver_label].xml) = {FormatInt(ParseInt(v) + 1)}
    /\ \A n \in Names :
         history[n] >= 0 =>
            /\ outputs[n].exists
            /\ Versions(outputs[n].xml)
                 = {FormatInt(ParseInt(TemplateVersion) + history[n] + 1)}
    /\ Failed /\ driver_label # NoArg =>
         /\ outputs[driver_label].exists = prior.exists
         /\ Versions(outputs[driver_label].xml) = Versions(prior.xml)

C1_Witness ==
    /\ Completed
    /\ update_driver
    /\ history[driver_label] = 1
    /\ Versions(outputs[driver_label].xml) = {<<"1", "1">>}

\* C2: a run is in update mode exactly when its output archive existed at the
\* start, and an update leaves display name, document name and icon path
\* references as the prior archive had them.
C2_UpdateKeepsNames ==
    /\ PastResolve => (update_driver <=> prior.exists)
    /\ Completed /\ update_driver =>
         /\ DisplayName(outputs[driver_label].xml) = DisplayName(prior.xml)
         /\ DocumentName(outputs[driver_label].xml) = DocumentName(prior.xml)
         /\ IconRefs(outputs[driver_label].xml) = IconRefs(prior.xml)

\* C3: a create run sets the display name to the identifier with underscores
\* replaced by spaces, title-cased, the document name to that followed by
\* " - Experience Button", and puts the driver identifier wherever the
\* template had experience-button-scenario.
SpecLabel(label) == Title(Replace(label, <<"_">>, <<" ">>))
C3_CreateRenames ==
    Completed /\ ~update_driver =>
       LET out == outputs[driver_label].xml
       IN  /\ DisplayName(out) = {SpecLabel(driver_label)}
           /\ DocumentName(out) = {SpecLabel(driver_label) \o <<" - Experience Button">>}
           /\ \A i \in 1..Len(out) : out[i] # "experience-button-scenario"
           /\ IconRefs(out) =
                {Replace(r, <<"experience-button-scenario">>, DriverName(driver_label)) :
                    r \in IconRefs(TemplateXml(TemplateVersion))}

C3_Witness ==
    /\ Completed
    /\ ~update_driver
    /\ driver_label = <<"a", "_", "b">>
    /\ DisplayName(outputs[driver_label].xml) = {<<"A", " ", "B">>}

\* C4: without an argument, without <name>.png, or (create mode) without the
\* template after the download, the run exits with a non-zero status before
\* anything is generated or extracted: neither temporary directory is created,
\* the output archive is as it was, and a missing image means no download.
C4_EarlyExit ==
    /\ pc \notin {"idle", "exited"} => driver_label # NoArg
    /\ PastCheck => images[driver_label] = 1
    /\ PastResolve /\ pc # "exited" /\ ~update_driver => template
    /\ pc = "exited" /\ failed_at \in {"args", "check_image", "resolve"} =>
         /\ exit_status = 1
         /\ tempdir.exists = start.tempdir
         /\ temp_image.exists = start.temp_image
         /\ source = NoTree
         /\ generated = NoImages
         /\ driver_label # NoArg => outputs[driver_label] = prior
    /\ pc = "exited" /\ failed_at = "check_image" => ~downloaded

C4_Witness ==
    /\ pc = "exited"
    /\ failed_at = "resolve"
    /\ downloaded
    /\ ~template
    /\ ~temp_image.exists
    /\ ~outputs[driver_label].exists

\* C5: after a run that completes, uibutton_<name>.c4z exists and tempdir,
\* temp_image and uibutton_<name>.zip do not; a create run has removed the
\* template archive, an update run has neither downloaded nor removed one.
C5_CleanAfterSuccess ==
    Completed =>
       /\ outputs[driver_label].exists
       /\ ~tempdir.exists
       /\ ~temp_image.exists
       /\ driver_label \notin zips
       /\ ~update_driver => downloaded /\ ~template
       /\ update_driver => ~downloaded /\ template = start.template

C5_Witness ==
    /\ Completed
    /\ update_driver
    /\ template
    /\ start.tempdir

\* C6: the produced archive has this run's default 16px image as device_sm.png
\* and its default 32px image as device_lg.png, www/icons/device gets exactly
\* this run's images of the sizes 70..1024, and no 16px or 32px image.
C6_IconPlacement ==
    Completed =>
       LET out == outputs[driver_label].files
       IN  /\ generated[<<"default", 16>>] # Absent
           /\ out[device_sm] = generated[<<"default", 16>>]
           /\ generated[<<"default", 32>>] # Absent
           /\ out[device_lg] = generated[<<"default", 32>>]
           /\ \A f \in ImageFiles :
                IF f[2] \in DeviceSizes /\ generated[f] # Absent
                THEN out[f] = generated[f]
                ELSE out[f] = source.files[f]

\* C7: the tree a run archives holds only files of the archive it extracted
\* and images it generated itself.
C7_FreshWorkingDirectory ==
    Completed =>
       \A p \in TreePaths :
          LET c == outputs[driver_label].files[p]
          IN  c = Absent \/ c = source.files[p] \/ c \in GeneratedImages

\* C8: a resize or save failure of one size is logged, the other sizes are
\* generated, and the run still gets through tree assembly to the archive,
\* whichever size failed.
C8_ResizeFailureNonFatal ==
    /\ pc = "extract" =>
         Cardinality({f \in ImageFiles : generated[f] = Absent})
            = Cardinality({i \in 1..Len(runLog) :
                             runLog[i] = Error("cannot create resized image")})
    /\ pc = "exited" /\ ResizeFailed => failed_at # "assemble"

\* C9: a fatal exit after configure_logging (missing image, failed download)
\* writes an error entry to the log; the missing-argument exit writes no log.
C9_FatalExitsLogged ==
    /\ pc = "exited" /\ failed_at \in {"check_image", "resolve"} =>
         /\ driver_label \in logs
         /\ \E i \in 1..Len(runLog) : runLog[i][1] = "ERROR"
    /\ pc = "exited" /\ failed_at = "args" => runLog = <<>>

\* C10: until the final rename an existing uibutton_<name>.c4z is as the run
\* found it, so a run that fails leaves it unchanged.
C10_OutputReplacedOnlyByRename ==
    /\ pc \notin {"idle", "finish", "exited"} => outputs[driver_label] = prior
    /\ Failed /\ driver_label # NoArg => outputs[driver_label] = prior

C10_Witness ==
    /\ Failed
    /\ update_driver
    /\ failed_at = "patch"
    /\ tempdir.exists
    /\ outputs[driver_label] = prior
====
